---------------------------- MODULE Spec2Model ----------------------------
(***************************************************************************)
(* RFM customer segmentation (customer_segmentation.py).                   *)
(*                                                                         *)
(* The script loads a table of invoice lines, runs data_preprocess on it   *)
(* (line 117) and then create_segment_dataframe on the result (line 179).  *)
(*                                                                         *)
(* Representation.                                                         *)
(*  - A table is a sequence of rows (records), in row order.               *)
(*  - Quantity and UnitPrice are held in eighths (the quartiles of         *)
(*    integers are quarters, the fences 1.5 times that); TotalPrice and    *)
(*    Monetary are therefore in sixty-fourths.  Arithmetic is exact: the   *)
(*    rounding of float64 is not modelled.                                 *)
(*  - InvoiceDate is a number of ticks since 2011-12-01 00:00.             *)
(*  - A null cell is recorded in the row's field na (the set of the        *)
(*    columns that are null in that row).                                  *)
(*  - InvoiceNo, RF_Score and CustomerSegment are strings, held as the     *)
(*    sequences of their characters.                                       *)
(*  - CustomerID is a float in the table, held in tenths.                  *)
(***************************************************************************)
EXTENDS Integers, Sequences, FiniteSets, TLC

VARIABLES
    pc,       \* where the script is: "loaded", "preprocessed", "segmented",
              \* "failed" (and "scored", "replacing" inside the segment step)
    df_,      \* the table as read from the file (line 28)
    df,       \* the working table (lines 29 and 117)
    rfm,      \* the table of customers (line 179)
    pending   \* the pairs of segment_map still to be applied

vars == <<pc, df_, df, rfm, pending>>

---------------------------------------------------------------------------
(* Bounds of the model.                                                    *)

\* the longest raw table of the specification Spec
MaxRows == 5
\* the most customers of the specification SpecScore
MaxCustomers == 6
\* ticks of InvoiceDate per day
TicksPerDay == 2

---------------------------------------------------------------------------
(* Helpers: sequences and numbers.                                         *)

Range(s) == {s[i] : i \in DOMAIN s}

RECURSIVE SeqSum(_)
SeqSum(s) == IF s = <<>> THEN 0 ELSE Head(s) + SeqSum(Tail(s))

RECURSIVE SetMax(_)
SetMax(S) == LET x == CHOOSE y \in S : TRUE
             IN  IF S = {x} THEN x
                 ELSE LET m == SetMax(S \ {x}) IN IF x > m THEN x ELSE m

\* s with x inserted before the first element greater than x
RECURSIVE Insert(_, _)
Insert(x, s) ==
    IF s = <<>> THEN <<x>>
    ELSE IF x < Head(s) THEN <<x>> \o s
    ELSE <<Head(s)>> \o Insert(x, Tail(s))

RECURSIVE Sorted(_)
Sorted(s) == IF s = <<>> THEN <<>> ELSE Insert(Head(s), Sorted(Tail(s)))

\* the numbers of the set S in ascending order
RECURSIVE Ascending(_)
Ascending(S) ==
    IF S = {} THEN <<>>
    ELSE LET m == SetMax(S) IN Append(Ascending(S \ {m}), m)

\* den times the num/den quantile of the values xs, by linear interpolation
\* between the order statistics around position (n-1)*num/den
QuantileTimes(xs, num, den) ==
    LET s  == Sorted(xs)
        n  == Len(s)
        h  == (n - 1) * num
        lo == h \div den
        r  == h % den
        hi == IF lo + 2 <= n THEN lo + 2 ELSE n
    IN  (den - r) * s[lo + 1] + r * s[hi]

---------------------------------------------------------------------------
(* data_preprocess and its helpers.                                        *)

Column(t, c) == [i \in DOMAIN t |-> t[i][c]]

\* find_thresholds: (low_limit, up_limit) of column variable, in the
\* column's unit.  4*q1 and 4*q3 are multiples of 8 for values that are.
find_thresholds(dataframe, variable) ==
    LET q1x4 == QuantileTimes(Column(dataframe, variable), 1, 4)
        q3x4 == QuantileTimes(Column(dataframe, variable), 3, 4)
    IN  [low_limit |-> (5 * q1x4 - 3 * q3x4) \div 8,
         up_limit  |-> (5 * q3x4 - 3 * q1x4) \div 8]

\* replace_with_thresholds: values below low_limit become low_limit, then
\* values above up_limit become up_limit.  On an empty table the quantiles
\* are NaN, both comparisons are False and nothing is assigned.
replace_with_thresholds(dataframe, variable) ==
    IF dataframe = <<>> THEN dataframe
    ELSE LET th   == find_thresholds(dataframe, variable)
             low  == [i \in DOMAIN dataframe |->
                        IF dataframe[i][variable] < th.low_limit
                        THEN [dataframe[i] EXCEPT ![variable] = th.low_limit]
                        ELSE dataframe[i]]
         IN  [i \in DOMAIN low |->
                IF low[i][variable] > th.up_limit
                THEN [low[i] EXCEPT ![variable] = th.up_limit]
                ELSE low[i]]

\* a slip: str.startswith("C") in place of str.contains("C")
HasC_Prefix(s) == s # <<>> /\ s[1] = "C"

\* re.search of the one-character pattern "C" in the characters s
HasC(s) == \E i \in DOMAIN s : s[i] = "C"

\* dataframe["InvoiceNo"].str.contains("C", na=False): a null cell gives
\* NaN, which na=False turns into False
str_contains_C(row) ==
    IF "InvoiceNo" \in row.na THEN FALSE ELSE HasC(row.InvoiceNo)

NotNull(row) == row.na = {}

NotCancelled(row) == ~str_contains_C(row)

WithTotalPrice(row) ==
    row @@ [TotalPrice |-> row.Quantity * row.UnitPrice]

\* a slip: the outliers handled before the rows are dropped
data_preprocess_ClipFirst(dataframe) ==
    LET q        == replace_with_thresholds(dataframe, "Quantity")
        p        == replace_with_thresholds(q, "UnitPrice")
        nonnull  == SelectSeq(p, NotNull)
        kept     == SelectSeq(nonnull, NotCancelled)
    IN  [i \in DOMAIN kept |-> WithTotalPrice(kept[i])]

data_preprocess(dataframe) ==
    LET nonnull  == SelectSeq(dataframe, NotNull)
        kept     == SelectSeq(nonnull, NotCancelled)
        q        == replace_with_thresholds(kept, "Quantity")
        p        == replace_with_thresholds(q, "UnitPrice")
    IN  [i \in DOMAIN p |-> WithTotalPrice(p[i])]

---------------------------------------------------------------------------
(* create_segment_dataframe and its helpers.                               *)

\* dt.datetime(2011, 12, 11), in ticks since 2011-12-01 00:00
todays_date == 10 * TicksPerDay

\* Timedelta.days: the whole days of a difference of ticks, rounded down
\* (a negative Timedelta has negative days)
days(delta) == delta \div TicksPerDay

RowsOf(dataframe, cid) == SelectSeq(dataframe, LAMBDA r : r.CustomerID = cid)

\* a slip: count() in place of nunique()
Aggregate_CountRows(dataframe, cid) ==
    LET g == RowsOf(dataframe, cid)
    IN  [CustomerID |-> cid,
         Recency    |-> days(todays_date - SetMax(Range(Column(g, "InvoiceDate")))),
         Frequency  |-> Len(g),
         Monetary   |-> SeqSum(Column(g, "TotalPrice"))]

\* the three aggregates of one group of groupby("CustomerID").agg(...)
Aggregate(dataframe, cid) ==
    LET g == RowsOf(dataframe, cid)
    IN  [CustomerID |-> cid,
         Recency    |-> days(todays_date - SetMax(Range(Column(g, "InvoiceDate")))),
         Frequency  |-> Cardinality(Range(Column(g, "InvoiceNo"))),
         Monetary   |-> SeqSum(Column(g, "TotalPrice"))]

\* groupby sorts the group keys: one row per CustomerID, ascending
GroupBy(dataframe) ==
    LET keys == Ascending(Range(Column(dataframe, "CustomerID")))
    IN  [i \in DOMAIN keys |-> Aggregate(dataframe, keys[i])]

\* a slip: rfm[rfm["Monetary"] != 0], as the comment of line 147 reads
PositiveMonetary_NonZero(rec) == rec.Monetary # 0

\* rfm[rfm["Monetary"] > 0]
PositiveMonetary(rec) == rec.Monetary > 0

\* a slip: rank(method="min"), equal values sharing the lowest rank
rank_min(xs) ==
    [i \in DOMAIN xs |-> 1 + Cardinality({j \in DOMAIN xs : xs[j] < xs[i]})]

\* Series.rank(method="first"): equal values are ranked in the order they
\* appear in the series
rank_first(xs) ==
    [i \in DOMAIN xs |->
        1 + Cardinality({j \in DOMAIN xs : xs[j] < xs[i]})
          + Cardinality({j \in DOMAIN xs : j < i /\ xs[j] = xs[i]})]

\* the number of quantile bins of the three pd.qcut calls
NBins == 5

\* a slip: pd.cut in place of pd.qcut, 5 bins of equal width
BinEdges_EqualWidth(xs) ==
    [k \in 0..NBins |->
        NBins * QuantileTimes(xs, 0, 1)
          + k * (QuantileTimes(xs, 1, 1) - QuantileTimes(xs, 0, 1))]

\* 5 times the bin edges of pd.qcut(xs, 5): the quantiles at 0, 1/5, .. 1
BinEdges(xs) == [k \in 0..NBins |-> QuantileTimes(xs, k, NBins)]

\* a slip: equal edges let through
EdgesUnique_NotChecked(xs) == xs # <<>>

\* pd.qcut raises ValueError ("Bin edges must be unique") when two edges
\* are equal; the edges of no values at all are NaN and raise too
EdgesUnique(xs) ==
    /\ xs # <<>>
    /\ \A k \in 1..NBins : BinEdges(xs)[k - 1] < BinEdges(xs)[k]

\* the bin of x: bins.searchsorted(x, side="left"), the number of edges
\* below x, and 1 for x equal to the lowest edge (include_lowest)
BinOf(edges, x) ==
    IF NBins * x = edges[0] THEN 1
    ELSE Cardinality({k \in 0..NBins : edges[k] < NBins * x})

\* pd.qcut(xs, 5, labels): the label of each value's bin
qcut(xs, labels) ==
    LET edges == BinEdges(xs)
    IN  [i \in DOMAIN xs |-> labels[BinOf(edges, xs[i])]]

\* a slip: the labels of Recency not inverted
RecencyLabels_Ascending == <<1, 2, 3, 4, 5>>

RecencyLabels == <<5, 4, 3, 2, 1>>
FrequencyLabels == <<1, 2, 3, 4, 5>>
MonetaryLabels == <<1, 2, 3, 4, 5>>

\* the segment labels, as characters
Hibernating == <<"H", "i", "b", "e", "r", "n", "a", "t", "i", "n", "g">>
AtRisk == <<"A", "t", " ", "R", "i", "s", "k">>
CantLose == <<"C", "a", "n", "'", "t", " ", "L", "o", "s", "e">>
AboutToSleep ==
    <<"A", "b", "o", "u", "t", " ", "t", "o", " ", "S", "l", "e", "e", "p">>
NeedAttention ==
    <<"N", "e", "e", "d", " ", "A", "t", "t", "e", "n", "t", "i", "o", "n">>
LoyalCustomer ==
    <<"L", "o", "y", "a", "l", " ", "C", "u", "s", "t", "o", "m", "e", "r">>
Promising == <<"P", "r", "o", "m", "i", "s", "i", "n", "g">>
NewCustomer == <<"N", "e", "w", " ", "C", "u", "s", "t", "o", "m", "e", "r">>
PotentialLoyalist ==
    <<"P", "o", "t", "e", "n", "t", "i", "a", "l", " ", "L", "o", "y", "a", "l", "i", "s", "t">>
Champion == <<"C", "h", "a", "m", "p", "i", "o", "n">>

\* a regular expression of the form used by segment_map, a sequence of
\* character classes: whether it matches s at position i
MatchAt(pat, s, i) ==
    /\ i + Len(pat) - 1 <= Len(s)
    /\ \A k \in DOMAIN pat : s[i + k - 1] \in pat[k]

\* re.search(pat, s) is not None
Search(pat, s) == \E i \in DOMAIN s : MatchAt(pat, s, i)

\* re.sub(pat, repl, s): every match, leftmost first and not overlapping,
\* replaced by repl
RECURSIVE Sub(_, _, _)
Sub(pat, repl, s) ==
    IF s = <<>> THEN s
    ELSE IF MatchAt(pat, s, 1)
         THEN repl \o Sub(pat, repl, SubSeq(s, Len(pat) + 1, Len(s)))
         ELSE <<Head(s)>> \o Sub(pat, repl, Tail(s))

\* the dictionary segment_map, in its order
segment_map ==
    << [pat |-> <<{"1", "2"}, {"1", "2"}>>, repl |-> Hibernating],
       [pat |-> <<{"1", "2"}, {"3", "4"}>>, repl |-> AtRisk],
       [pat |-> <<{"1", "2"}, {"5"}>>, repl |-> CantLose],
       [pat |-> <<{"3"}, {"1", "2"}>>, repl |-> AboutToSleep],
       [pat |-> <<{"3"}, {"3"}>>, repl |-> NeedAttention],
       [pat |-> <<{"3", "4"}, {"4", "5"}>>, repl |-> LoyalCustomer],
       [pat |-> <<{"4"}, {"1"}>>, repl |-> Promising],
       [pat |-> <<{"5"}, {"1"}>>, repl |-> NewCustomer],
       [pat |-> <<{"4", "5"}, {"2", "3"}>>, repl |-> PotentialLoyalist],
       [pat |-> <<{"5"}, {"4", "5"}>>, repl |-> Champion] >>

\* one pair of Series.replace(segment_map, regex=True): the pair's mask is
\* taken on the original value, the substitution made in the current one
ReplaceOne(rule, original, current) ==
    IF Search(rule.pat, original) THEN Sub(rule.pat, rule.repl, current)
    ELSE current

\* the pairs rules[1..n] applied in turn to the value original
RECURSIVE ReplaceList(_, _, _)
ReplaceList(rules, n, original) ==
    IF n = 0 THEN original
    ELSE ReplaceOne(rules[n], original, ReplaceList(rules, n - 1, original))

\* rfm["RF_Score"].replace(segment_map, regex=True), for one value
Replace(value) == ReplaceList(segment_map, Len(segment_map), value)

\* astype(str) of a score (a category 1..5): its decimal digit
Digit == <<"1", "2", "3", "4", "5">>
astype_str(score) == <<Digit[score]>>

\* a slip: the two scores concatenated the other way round
RF_Score_Swapped(rec) == astype_str(rec.FrequencyScore) \o astype_str(rec.RecencyScore)

\* a slip: the RFM score, with the MonetaryScore, used as the RF code
RF_Score_WithMonetary(rec) ==
    astype_str(rec.RecencyScore) \o astype_str(rec.FrequencyScore)
        \o astype_str(rec.MonetaryScore)

\* rfm["RecencyScore"].astype(str) + rfm["FrequencyScore"].astype(str)
RF_Score(rec) == astype_str(rec.RecencyScore) \o astype_str(rec.FrequencyScore)

\* lines 156-173 for one scored row: the RF code and its segment
WithSegment(rec) ==
    rec @@ [RF_Score |-> RF_Score(rec), CustomerSegment |-> Replace(RF_Score(rec))]

\* rfm.index.astype(int): CustomerID, a float held in tenths, truncated
astype_int(x) == x \div 10

WithIntIndex(rec) == [rec EXCEPT !.CustomerID = astype_int(rec.CustomerID)]

\* the three qcut calls succeed
Scorable(t) ==
    /\ EdgesUnique(Column(t, "Recency"))
    /\ EdgesUnique(rank_first(Column(t, "Frequency")))
    /\ EdgesUnique(Column(t, "Monetary"))

\* lines 151-153: the three score columns
WithScores(t) ==
    LET r == qcut(Column(t, "Recency"), RecencyLabels)
        f == qcut(rank_first(Column(t, "Frequency")), FrequencyLabels)
        m == qcut(Column(t, "Monetary"), MonetaryLabels)
    IN  [i \in DOMAIN t |->
            t[i] @@ [RecencyScore |-> r[i], FrequencyScore |-> f[i],
                     MonetaryScore |-> m[i]]]

\* create_segment_dataframe: [ok, rfm]; ok is FALSE when a qcut raises,
\* and then nothing is returned
create_segment_dataframe(dataframe) ==
    LET grouped  == GroupBy(dataframe)
        positive == SelectSeq(grouped, PositiveMonetary)
    IN  IF ~Scorable(positive) THEN [ok |-> FALSE, rfm |-> <<>>]
        ELSE LET scored == WithScores(positive)
             IN  [ok  |-> TRUE,
                  rfm |-> [i \in DOMAIN scored |->
                              WithIntIndex(WithSegment(scored[i]))]]

---------------------------------------------------------------------------
(* The script: lines 28-29, 117 and 179.                                   *)

\* one invoice line as read from the file
Line(inv, qty, date, price, cust, nulls) ==
    [InvoiceNo |-> inv, StockCode |-> "85123A", Description |-> "HOLDER",
     Quantity |-> 8 * qty, InvoiceDate |-> date, UnitPrice |-> 8 * price,
     CustomerID |-> 10 * cust, Country |-> "Norway", na |-> nulls]

\* the invoice lines the raw tables of Spec are made of
RawLines ==
    { Line(<<"5">>,      1,   todays_date - 1,               1,  1, {}),
      Line(<<"6">>,      2,   todays_date - 3 * TicksPerDay, 2,  1, {}),
      Line(<<"c", "7">>, 40,  todays_date - TicksPerDay,     1,  2, {}),
      Line(<<"5", "C">>, -40, todays_date - 1,               30, 1, {}),
      Line(<<"9">>,      40,  todays_date - 2,               30, 2, {"CustomerID"}),
      Line(<<"8">>,      -2,  todays_date - 5 * TicksPerDay, 1,  3, {}) }

RECURSIVE SeqsUpTo(_, _)
SeqsUpTo(S, n) ==
    IF n = 0 THEN {<<>>}
    ELSE LET shorter == SeqsUpTo(S, n - 1)
         IN  shorter \cup {Append(t, x) : t \in shorter, x \in S}

RawTables == SeqsUpTo(RawLines, MaxRows)

\* lines 28-29: df_ = pd.read_excel(...); df = df_.copy()
Init ==
    /\ pc = "loaded"
    /\ df_ \in RawTables
    /\ df = df_
    /\ rfm = <<>>
    /\ pending = {}

\* line 117: df = data_preprocess(df)
DataPreprocess ==
    /\ pc = "loaded"
    /\ df' = data_preprocess(df)
    /\ pc' = "preprocessed"
    /\ UNCHANGED <<df_, rfm, pending>>

\* line 179: rfm = create_segment_dataframe(df); the script ends with the
\* exception when a qcut raises
CreateSegmentDataframe ==
    /\ pc = "preprocessed"
    /\ LET res == create_segment_dataframe(df)
       IN  /\ pc' = IF res.ok THEN "segmented" ELSE "failed"
           /\ rfm' = res.rfm
    /\ UNCHANGED <<df_, df, pending>>

Next == DataPreprocess \/ CreateSegmentDataframe

Spec == Init /\ [][Next]_vars

---------------------------------------------------------------------------
(* SpecScore: the script on tables of up to MaxCustomers customers.        *)
(* Customer c has one invoice line, with a Quantity and a date of its own; *)
(* one of the three metrics is then varied, customer by customer:          *)
(*   "R"  the invoice is a day older,                                      *)
(*   "F"  the customer has further invoices (lines of Quantity 0),         *)
(*   "M"  the Quantity is one more, or is 0 (odd c) or negative (even c).  *)

\* a Quantity and an age in days of customer c: distinct for c in 1..10
Own(c) == (4 * c) % 11

\* the number of invoices of a customer that has further ones
Several(c) == 2 + (((c - 1) \div 2) % 3)

Char == <<"0", "1", "2", "3", "4", "5", "6", "7", "8", "9">>

\* the lines of customer c, v being its variation of metric dim
LinesFor(c, dim, v) ==
    LET age  == Own(c) + (IF dim = "R" THEN v ELSE 0)
        date == todays_date - 1 - TicksPerDay * age
        qty  == IF dim # "M" \/ v = 0 THEN Own(c)
                ELSE IF v = 1 THEN Own(c) + 1
                ELSE IF c % 2 = 1 THEN 0 ELSE 0 - Own(c)
        more == IF dim = "F" /\ v = 1 THEN Several(c) - 1 ELSE 0
    IN  <<Line(<<Char[1], Char[c + 1]>>, qty, date, 1, c, {})>>
        \o [k \in 1..more |-> Line(<<Char[k + 2], Char[c + 1]>>, 0, date, 1, c, {})]

RECURSIVE Flatten(_)
Flatten(ss) == IF ss = <<>> THEN <<>> ELSE Head(ss) \o Flatten(Tail(ss))

Variations(dim) == IF dim = "M" THEN 0..2 ELSE 0..1

ScoreTables ==
    UNION { { Flatten([c \in 1..n |-> LinesFor(c, dim, v[c])]) :
                v \in [1..n -> Variations(dim)] } :
            n \in 1..MaxCustomers, dim \in {"R", "F", "M"} }

InitScore ==
    /\ pc = "loaded"
    /\ df_ \in ScoreTables
    /\ df = df_
    /\ rfm = <<>>
    /\ pending = {}

SpecScore == InitScore /\ [][Next]_vars

---------------------------------------------------------------------------
(* SpecSegment and SpecOrder: lines 156-175 on one scored customer, for    *)
(* every triple of scores.  SpecSegment applies segment_map in its order;  *)
(* SpecOrder applies its pairs one at a time in any order.                 *)

ScoredCustomers ==
    { [CustomerID |-> 10 * 17850, Recency |-> 2, Frequency |-> 1, Monetary |-> 64,
       RecencyScore |-> r, FrequencyScore |-> f, MonetaryScore |-> m] :
      r \in 1..NBins, f \in 1..NBins, m \in 1..NBins }

InitSegment ==
    /\ pc = "scored"
    /\ df_ = <<>>
    /\ df = <<>>
    /\ rfm \in {<<rec>> : rec \in ScoredCustomers}
    /\ pending = {}

\* lines 156-175: RF_Score, CustomerSegment and the integer index
AssignSegments ==
    /\ pc = "scored"
    /\ rfm' = [j \in DOMAIN rfm |-> WithIntIndex(WithSegment(rfm[j]))]
    /\ pc' = "segmented"
    /\ UNCHANGED <<df_, df, pending>>

SpecSegment == InitSegment /\ [][AssignSegments]_vars

\* line 156, and the start of line 173: the column to replace in
StartReplace ==
    /\ pc = "scored"
    /\ rfm' = [j \in DOMAIN rfm |->
                 rfm[j] @@ [RF_Score |-> RF_Score(rfm[j]),
                            CustomerSegment |-> RF_Score(rfm[j])]]
    /\ pending' = DOMAIN segment_map
    /\ pc' = "replacing"
    /\ UNCHANGED <<df_, df>>

\* line 173: one pair of segment_map, any of those not yet applied
ApplyPair ==
    /\ pc = "replacing"
    /\ \E i \in pending :
          /\ rfm' = [j \in DOMAIN rfm |->
                       [rfm[j] EXCEPT !.CustomerSegment =
                           ReplaceOne(segment_map[i], rfm[j].RF_Score, @)]]
          /\ pending' = pending \ {i}
    /\ UNCHANGED <<pc, df_, df>>

\* line 175, after the last pair
FinishReplace ==
    /\ pc = "replacing"
    /\ pending = {}
    /\ rfm' = [j \in DOMAIN rfm |-> WithIntIndex(rfm[j])]
    /\ pc' = "segmented"
    /\ UNCHANGED <<df_, df, pending>>

NextOrder == StartReplace \/ ApplyPair \/ FinishReplace

SpecOrder == InitSegment /\ [][NextOrder]_vars

---------------------------------------------------------------------------
(* Notions the properties are stated with, defined apart from the model.   *)

\* the k-th smallest of the values xs, by counting
OrderStat(xs, k) ==
    CHOOSE v \in Range(xs) :
        /\ Cardinality({j \in DOMAIN xs : xs[j] < v}) < k
        /\ k <= Cardinality({j \in DOMAIN xs : xs[j] <= v})

\* den times the num/den quantile of xs, interpolated linearly between the
\* two order statistics around position (Len(xs) - 1) * num / den
FractileTimes(xs, num, den) ==
    LET h  == (Len(xs) - 1) * num
        lo == OrderStat(xs, (h \div den) + 1)
        hi == IF (h \div den) + 2 <= Len(xs) THEN OrderStat(xs, (h \div den) + 2) ELSE lo
    IN  den * lo + (h % den) * (hi - lo)

QuartileTimes4(xs, q) == FractileTimes(xs, q, 4)

\* 8 times the Tukey fences Q1 - 1.5*(Q3 - Q1) and Q3 + 1.5*(Q3 - Q1)
LowLimitTimes8(xs) ==
    2 * QuartileTimes4(xs, 1) - 3 * (QuartileTimes4(xs, 3) - QuartileTimes4(xs, 1))
UpLimitTimes8(xs) ==
    2 * QuartileTimes4(xs, 3) + 3 * (QuartileTimes4(xs, 3) - QuartileTimes4(xs, 1))

\* the raw rows without a null and without a "C" in the invoice identifier
CleanRaw ==
    SelectSeq(df_, LAMBDA r : r.na = {} /\ \A k \in DOMAIN r.InvoiceNo : r.InvoiceNo[k] # "C")

\* a row without the columns that preprocessing changes or adds
Untouched(r) ==
    <<r.InvoiceNo, r.StockCode, r.Description, r.InvoiceDate, r.CustomerID, r.Country>>

\* column c of df is column c of CleanRaw clamped to CleanRaw's fences
Clamped(c) ==
    LET xs  == Column(CleanRaw, c)
        low == LowLimitTimes8(xs)
        up  == UpLimitTimes8(xs)
    IN  \A i \in DOMAIN df :
            /\ low <= 8 * df[i][c]
            /\ 8 * df[i][c] <= up
            /\ 8 * xs[i] < low => 8 * df[i][c] = low
            /\ 8 * xs[i] > up => 8 * df[i][c] = up
            /\ (low <= 8 * xs[i] /\ 8 * xs[i] <= up) => df[i][c] = xs[i]

---------------------------------------------------------------------------
(* C2, C3: data_preprocess.                                                *)

\* C2: after data_preprocess every Quantity and every UnitPrice lies within
\* the Tukey fences of its column, the fences being those of the rows left
\* by the null-drop and the cancellation-drop, before clipping; a value
\* outside is set to the nearer fence, a value inside is unchanged, and
\* clipping removes no row.
C2_ClippedToFences ==
    pc # "loaded" =>
        /\ Len(df) = Len(CleanRaw)
        /\ Clamped("Quantity")
        /\ Clamped("UnitPrice")

\* a row was dropped, a Quantity was raised to the lower fence or lowered
\* to the upper one, and a UnitPrice was clipped
C2_Witness ==
    /\ pc = "preprocessed"
    /\ Len(df) < Len(df_)
    /\ \E i \in DOMAIN df : df[i].Quantity # CleanRaw[i].Quantity
    /\ \E i \in DOMAIN df : df[i].UnitPrice < CleanRaw[i].UnitPrice

---------------------------------------------------------------------------
(* C4, C5: the aggregation of create_segment_dataframe.                    *)

RECURSIVE SumOver(_, _)
SumOver(f, S) ==
    IF S = {} THEN 0
    ELSE LET i == CHOOSE j \in S : TRUE IN f[i] + SumOver(f, S \ {i})

\* the customers of the cleaned table and the rows of each
CustomersOf(t) == {t[i].CustomerID : i \in DOMAIN t}
LinesOf(t, cid) == {i \in DOMAIN t : t[i].CustomerID = cid}

\* the sum over the customer's rows of Quantity * UnitPrice
SpentBy(t, cid) ==
    SumOver([i \in DOMAIN t |-> t[i].Quantity * t[i].UnitPrice], LinesOf(t, cid))

\* d is the number of whole days from the customer's latest invoice date
\* to the reference date
WholeDays(t, cid, d) ==
    \E i \in LinesOf(t, cid) :
        /\ \A j \in LinesOf(t, cid) : t[j].InvoiceDate <= t[i].InvoiceDate
        /\ d * TicksPerDay <= todays_date - t[i].InvoiceDate
        /\ todays_date - t[i].InvoiceDate < (d + 1) * TicksPerDay

\* C4: each output customer has Recency = the whole days between the
\* reference date and its latest invoice date, Frequency = the number of
\* its distinct invoice identifiers and Monetary = the sum over its cleaned
\* rows of Quantity * UnitPrice; the output has exactly one row for each
\* customer of the cleaned table whose Monetary is positive, and no other.
C4_Aggregates ==
    pc = "segmented" =>
        /\ Len(rfm) = Cardinality({c \in CustomersOf(df) : SpentBy(df, c) > 0})
        /\ \A c \in CustomersOf(df) :
              SpentBy(df, c) > 0 =>
                 \E j \in DOMAIN rfm :
                    /\ rfm[j].CustomerID * 10 = c
                    /\ \A k \in DOMAIN rfm : rfm[k].CustomerID = rfm[j].CustomerID => k = j
                    /\ WholeDays(df, c, rfm[j].Recency)
                    /\ rfm[j].Frequency
                          = Cardinality({df[i].InvoiceNo : i \in LinesOf(df, c)})
                    /\ rfm[j].Monetary = SpentBy(df, c)

\* a customer with several rows under one invoice and a second invoice on
\* another day, whose Quantity was clipped
C4_Witness ==
    /\ pc = "segmented"
    /\ \E j \in DOMAIN rfm :
          /\ rfm[j].Frequency = 2
          /\ Cardinality(LinesOf(df, rfm[j].CustomerID * 10)) > 2
          /\ rfm[j].Recency = 0
    /\ \E i \in DOMAIN df : df[i].Quantity # CleanRaw[i].Quantity

\* the cleaned table without the rows of the customers whose line totals
\* sum to zero or less
WithoutUnprofitable(t) == SelectSeq(t, LAMBDA r : SpentBy(t, r.CustomerID) > 0)

---------------------------------------------------------------------------
(* C6 - C9: the three scores.                                              *)

\* the customers the scores are computed for: the groups with Monetary > 0
Candidates == SelectSeq(GroupBy(df), PositiveMonetary)

GroupOf(score, l) == {j \in DOMAIN rfm : rfm[j][score] = l}

\* every label 1..5 is used and no two groups differ by more than one
EvenGroups(score) ==
    /\ \A l \in 1..NBins : GroupOf(score, l) # {}
    /\ \A l, m \in 1..NBins :
          Cardinality(GroupOf(score, l)) <= Cardinality(GroupOf(score, m)) + 1

Distinct(xs) == \A i, j \in DOMAIN xs : xs[i] = xs[j] => i = j

\* C6 as stated: whenever the function completes, FrequencyScore makes 5
\* non-empty groups whose sizes differ by at most one, for any number of
\* customers.
C6_AnyNumber ==
    pc = "segmented" => EvenGroups("FrequencyScore")

\* C6 as amended: whenever the function completes with at least 5
\* customers, FrequencyScore makes 5 non-empty groups whose sizes differ by
\* at most one, however many customers share a Frequency.
C6_FiveOrMore ==
    (pc = "segmented" /\ Len(rfm) >= NBins) => EvenGroups("FrequencyScore")

\* at least 5 customers were scored, several with the same Frequency and
\* several with another
C6_Witness ==
    /\ pc = "segmented"
    /\ Len(rfm) >= NBins
    /\ \E a, b, c, d \in DOMAIN rfm :
          /\ a < b /\ rfm[a].Frequency = rfm[b].Frequency
          /\ c < d /\ rfm[c].Frequency = rfm[d].Frequency
          /\ rfm[a].Frequency < rfm[c].Frequency

\* C7 as stated: whenever the function completes, RecencyScore and
\* MonetaryScore each make 5 groups, all used, whose sizes differ by at
\* most one, also when customers share a Recency or a Monetary.
C7_AlwaysEven ==
    pc = "segmented" =>
        EvenGroups("RecencyScore") /\ EvenGroups("MonetaryScore")

\* C7 as amended: whenever the function completes with at least 5
\* customers, RecencyScore makes 5 groups, all used, whose sizes differ by
\* at most one provided no two customers share a Recency, and so does
\* MonetaryScore provided no two customers share a Monetary.
C7_EvenWhenDistinct ==
    (pc = "segmented" /\ Len(rfm) >= NBins) =>
        /\ Distinct(Column(rfm, "Recency")) => EvenGroups("RecencyScore")
        /\ Distinct(Column(rfm, "Monetary")) => EvenGroups("MonetaryScore")

\* at least 5 customers were scored, no two with the same Recency or the
\* same Monetary, and they are not in the order of either
C7_Witness ==
    /\ pc = "segmented"
    /\ Len(rfm) > NBins
    /\ Distinct(Column(rfm, "Recency"))
    /\ Distinct(Column(rfm, "Monetary"))
    /\ \E j \in DOMAIN rfm : j > 1 /\ rfm[j].Monetary < rfm[j - 1].Monetary

\* the six cut points of xs (5 times the quantiles at 0, 1/5, .. 1) are
\* pairwise distinct
CutPointsDistinct(xs) ==
    /\ xs # <<>>
    /\ \A k, l \in 0..NBins :
          k < l => FractileTimes(xs, k, NBins) # FractileTimes(xs, l, NBins)

\* the first-seen rank of each Frequency: its place in the stable order
FirstSeenRank(xs) ==
    [i \in DOMAIN xs |->
        Cardinality({j \in DOMAIN xs : xs[j] < xs[i] \/ (xs[j] = xs[i] /\ j <= i)})]

\* C8 as stated: if a metric has fewer than 5 distinct effective values
\* among the scored customers, the function fails and returns no table.
C8_FewValuesFail ==
    (/\ pc \in {"segmented", "failed"}
     /\ \/ Cardinality(Range(Column(Candidates, "Recency"))) < NBins
        \/ Cardinality(Range(Column(Candidates, "Monetary"))) < NBins
        \/ Cardinality(Range(FirstSeenRank(Column(Candidates, "Frequency")))) < NBins)
    => (pc = "failed" /\ rfm = <<>>)

\* C8 as amended: if the six quantile cut points of a metric (of Recency,
\* of Monetary or of the first-seen ranks of Frequency) are not pairwise
\* distinct among the scored customers, the function fails and returns no
\* table; a table it returns has every candidate customer, each with its
\* three scores in 1..5.
C8_EqualCutPointsFail ==
    pc \in {"segmented", "failed"} =>
        /\ (\/ ~CutPointsDistinct(Column(Candidates, "Recency"))
            \/ ~CutPointsDistinct(Column(Candidates, "Monetary"))
            \/ ~CutPointsDistinct(FirstSeenRank(Column(Candidates, "Frequency"))))
           => (pc = "failed" /\ rfm = <<>>)
        /\ pc = "failed" => rfm = <<>>
        /\ pc = "segmented" =>
              /\ Len(rfm) = Len(Candidates)
              /\ \A j \in DOMAIN rfm :
                    /\ rfm[j].RecencyScore \in 1..NBins
                    /\ rfm[j].FrequencyScore \in 1..NBins
                    /\ rfm[j].MonetaryScore \in 1..NBins

\* the function failed on 5 or more customers, two of which share a value
C8_Witness ==
    /\ pc = "failed"
    /\ Len(Candidates) >= NBins
    /\ Cardinality(Range(Column(Candidates, "Recency"))) >= NBins
    /\ ~Distinct(Column(Candidates, "Monetary"))

\* C9: the scores are monotone.  A lower Recency never has a lower
\* RecencyScore, the lowest Recency has 5 and the highest 1; a lower
\* Frequency never has a higher FrequencyScore, nor a lower Monetary a
\* higher MonetaryScore; equal Recency (or Monetary) have equal scores;
\* of two customers with equal Frequency the first in customer order has
\* the lower or equal FrequencyScore.
C9_Monotone ==
    pc = "segmented" =>
        \A a, b \in DOMAIN rfm :
            /\ rfm[a].Recency < rfm[b].Recency
                  => rfm[a].RecencyScore >= rfm[b].RecencyScore
            /\ rfm[a].Recency = rfm[b].Recency
                  => rfm[a].RecencyScore = rfm[b].RecencyScore
            /\ (\A c \in DOMAIN rfm : rfm[a].Recency <= rfm[c].Recency)
                  => rfm[a].RecencyScore = 5
            /\ (\A c \in DOMAIN rfm : rfm[a].Recency >= rfm[c].Recency)
                  => rfm[a].RecencyScore = 1
            /\ rfm[a].Frequency < rfm[b].Frequency
                  => rfm[a].FrequencyScore <= rfm[b].FrequencyScore
            /\ (rfm[a].Frequency = rfm[b].Frequency
                    /\ rfm[a].CustomerID < rfm[b].CustomerID)
                  => rfm[a].FrequencyScore <= rfm[b].FrequencyScore
            /\ rfm[a].Monetary < rfm[b].Monetary
                  => rfm[a].MonetaryScore <= rfm[b].MonetaryScore
            /\ rfm[a].Monetary = rfm[b].Monetary
                  => rfm[a].MonetaryScore = rfm[b].MonetaryScore

\* two customers with the same Frequency have different FrequencyScores,
\* and two with the same Recency were scored
C9_Witness ==
    /\ pc = "segmented"
    /\ \E a, b \in DOMAIN rfm :
          /\ a < b
          /\ rfm[a].Frequency = rfm[b].Frequency
          /\ rfm[a].FrequencyScore < rfm[b].FrequencyScore
    /\ \E a, b \in DOMAIN rfm : a < b /\ rfm[a].Recency = rfm[b].Recency

---------------------------------------------------------------------------
(* C1, C10: the segment of an RF code.                                     *)

\* the table of the specification, section 4.4, first match first
SegmentOf(r, f) ==
    CASE r \in {1, 2} /\ f \in {1, 2} -> Hibernating
      [] r \in {1, 2} /\ f \in {3, 4} -> AtRisk
      [] r \in {1, 2} /\ f = 5        -> CantLose
      [] r = 3 /\ f \in {1, 2}        -> AboutToSleep
      [] r = 3 /\ f = 3               -> NeedAttention
      [] r \in {3, 4} /\ f \in {4, 5} -> LoyalCustomer
      [] r = 4 /\ f = 1               -> Promising
      [] r = 5 /\ f = 1               -> NewCustomer
      [] r \in {4, 5} /\ f \in {2, 3} -> PotentialLoyalist
      [] r = 5 /\ f \in {4, 5}        -> Champion
      [] OTHER                        -> <<>>

Labels ==
    {Hibernating, AtRisk, CantLose, AboutToSleep, NeedAttention, LoyalCustomer,
     Promising, NewCustomer, PotentialLoyalist, Champion}

\* C1: for every RecencyScore r and FrequencyScore f in 1..5 the customer's
\* RF code is the two digits r, f and its CustomerSegment is the label the
\* table gives for (r, f); no customer keeps a raw code as its segment.
C1_SegmentTable ==
    pc = "segmented" =>
        \A j \in DOMAIN rfm :
            /\ rfm[j].RF_Score = <<Char[rfm[j].RecencyScore + 1],
                                   Char[rfm[j].FrequencyScore + 1]>>
            /\ rfm[j].CustomerSegment
                  = SegmentOf(rfm[j].RecencyScore, rfm[j].FrequencyScore)
            /\ rfm[j].CustomerSegment \in Labels

\* the code 34, which the pattern 3[1-2] misses and [3-4][4-5] takes
C1_Witness ==
    /\ pc = "segmented"
    /\ \E j \in DOMAIN rfm :
          /\ rfm[j].RecencyScore = 3
          /\ rfm[j].FrequencyScore = 4
          /\ rfm[j].CustomerSegment = LoyalCustomer

\* C10: each RF code matches exactly one pattern of segment_map and no
\* label matches any pattern, so that with the pairs applied in any order
\* the CustomerSegment is the one of the order of the source, a function
\* of RecencyScore and FrequencyScore alone.
C10_AnyOrder ==
    pc \in {"replacing", "segmented"} =>
        \A j \in DOMAIN rfm :
            /\ Cardinality({i \in DOMAIN segment_map :
                               Search(segment_map[i].pat, rfm[j].RF_Score)}) = 1
            /\ pending = {} =>
                  /\ \A i, k \in DOMAIN segment_map :
                        ~Search(segment_map[i].pat, segment_map[k].repl)
                  /\ rfm[j].CustomerSegment = Replace(rfm[j].RF_Score)
                  /\ rfm[j].CustomerSegment
                        = Replace(astype_str(rfm[j].RecencyScore)
                                    \o astype_str(rfm[j].FrequencyScore))

\* all ten pairs were applied, in some order, to the code 54 of a customer
\* with MonetaryScore 1
C10_Witness ==
    /\ pc = "segmented"
    /\ \E j \in DOMAIN rfm :
          /\ rfm[j].RF_Score = <<"5", "4">>
          /\ rfm[j].MonetaryScore = 1
          /\ rfm[j].CustomerSegment = Champion

=============================================================================
